---- MODULE Spec2Model ----
(***************************************************************************)
(* Model of gtsfm/densify/mvs_utils.py: the triangulation-angle             *)
(* computations, piecewise_gaussian, cart_to_homogenous,                    *)
(* estimate_minimum_voxel_size and downsample_point_cloud.                  *)
(*                                                                         *)
(* Real numbers are modelled exactly: coordinates and sizes are integers    *)
(* (a fixed-point grid), quotients are reduced fractions [n, d], and the    *)
(* transcendental functions exp and arccos are kept symbolic through the    *)
(* argument they are applied to (both are strictly monotone).               *)
(***************************************************************************)
EXTENDS Integers, Sequences, FiniteSets, TLC

VARIABLES pc, args, ret, heap, calls

vars == <<pc, args, ret, heap, calls>>

None == [kind |-> "none"]

\* ------------------------------------------------------------------------
\* Bounds of the model
\* ------------------------------------------------------------------------
MaxPts == 3

Positions == { <<-1, 0, 0>>, <<0, 0, 1>>, <<1, 0, 1>> }

Colors == { <<0, 0, 0>>, <<255, 128, 1>> }

VoxelSizes == { -1, 0, 1, 2 }

\* ------------------------------------------------------------------------
\* Arithmetic helpers
\* ------------------------------------------------------------------------
Abs(x) == IF x < 0 THEN -x ELSE x

RECURSIVE GCD(_, _)
GCD(a, b) == IF b = 0 THEN a ELSE GCD(b, a % b)

\* the quotient n / d (d > 0) as a reduced fraction
Frac(n, d) == LET g == GCD(Abs(n), d) IN [n |-> n \div g, d |-> d \div g]

Axes == 1..3

Vec3Add(u, v) == [a \in Axes |-> u[a] + v[a]]

Vec3Sub(u, v) == [a \in Axes |-> u[a] - v[a]]

Zero3 == [a \in Axes |-> 0]

Perms(n) == { f \in [1..n -> 1..n] : \A i, j \in 1..n : f[i] = f[j] => i = j }

Reorder(s, perm) == [i \in 1..Len(s) |-> s[perm[i]]]

MinOver(S) == LET x == CHOOSE y \in S : \A z \in S : y <= z IN x

\* ------------------------------------------------------------------------
\* open3d_vis_utils (gtsfm/visualization/open3d_vis_utils.py)
\* ------------------------------------------------------------------------
\* builds the library's point cloud from parallel position and colour arrays;
\* colour values pass through unchanged
create_colored_point_cloud_open3d(point_cloud, rgb) ==
    [points |-> point_cloud, colors |-> rgb]

convert_colored_open3d_point_cloud_to_numpy(pcd) ==
    [points |-> pcd.points, rgb |-> pcd.colors]

\* ------------------------------------------------------------------------
\* pcd.voxel_down_sample, the call of downsample_point_cloud (line 198)
\* ------------------------------------------------------------------------
\* per-axis minimum of the cloud; the origin for an empty cloud
GetMinBound(points) ==
    IF Len(points) = 0 THEN Zero3
    ELSE [a \in Axes |-> MinOver({ points[i][a] : i \in 1..Len(points) })]

\* mutant: the grid anchored at the origin
voxel_index_origin(p, min_bound, voxel_size) ==
    [a \in Axes |-> p[a] \div voxel_size]

\* mutant: the offset from the anchor is not divided by the voxel size
voxel_index_undivided(p, min_bound, voxel_size) ==
    [a \in Axes |-> 2 * (p[a] - min_bound[a]) + voxel_size]

\* The grid is anchored half a voxel below the cloud's minimum bound:
\* floor((p - (min_bound - voxel_size / 2)) / voxel_size), per axis.
voxel_index(p, min_bound, voxel_size) ==
    [a \in Axes |-> (2 * (p[a] - min_bound[a]) + voxel_size) \div (2 * voxel_size)]

EmptyAcc == [num |-> 0, point |-> Zero3, color |-> Zero3]

\* mutant: the first point of a voxel stands for the voxel
AddPointKeepFirst(acc, p, c) ==
    IF acc.num = 0 THEN [num |-> 1, point |-> p, color |-> c]
    ELSE [acc EXCEPT !.num = @ + 1]

\* accumulate one input point into its voxel
AddPoint(acc, p, c) ==
    [num |-> acc.num + 1, point |-> Vec3Add(acc.point, p), color |-> Vec3Add(acc.color, c)]

GetAveragePoint(acc) == [a \in Axes |-> Frac(acc.point[a], acc.num)]

GetAverageColor(acc) == [a \in Axes |-> Frac(acc.color[a], acc.num)]

\* the traversal of the input in index order, bucketing into a map from
\* voxel index to accumulator
RECURSIVE Bucket(_, _, _, _, _)
Bucket(pcd, min_bound, voxel_size, i, map) ==
    IF i > Len(pcd.points) THEN map
    ELSE LET k == voxel_index(pcd.points[i], min_bound, voxel_size)
             old == IF k \in DOMAIN map THEN map[k] ELSE EmptyAcc
             new == AddPoint(old, pcd.points[i], pcd.colors[i])
         IN Bucket(pcd, min_bound, voxel_size, i + 1,
                   [x \in (DOMAIN map) \cup {k} |-> IF x = k THEN new ELSE map[x]])

EmptyMap == [x \in {} |-> EmptyAcc]

\* one output point per map entry; the iteration order of the hash map is
\* not specified, so every order of the occupied voxels is a possible result
voxel_down_sample(pcd, voxel_size) ==
    IF voxel_size <= 0 THEN { [kind |-> "raise", exc |-> "RuntimeError", line |-> 198] }
    ELSE LET map == Bucket(pcd, GetMinBound(pcd.points), voxel_size, 1, EmptyMap)
             keys == DOMAIN map
             M == Cardinality(keys)
         IN { [kind |-> "return",
               points |-> [j \in 1..M |-> GetAveragePoint(map[ord[j]])],
               colors |-> [j \in 1..M |-> GetAverageColor(map[ord[j]])]] :
              ord \in { f \in [1..M -> keys] : \A i, j \in 1..M : f[i] = f[j] => i = j } }

\* ------------------------------------------------------------------------
\* downsample_point_cloud
\* ------------------------------------------------------------------------
\* mutant: zero is taken for a valid voxel size
IsInvalidVoxelSizeStrict(voxel_size) == voxel_size < 0

IsInvalidVoxelSize(voxel_size) == voxel_size <= 0

\* the set of results the call can produce
downsample_point_cloud(points, rgb, voxel_size) ==
    IF IsInvalidVoxelSize(voxel_size)
    THEN { [kind |-> "return", points |-> points, rgb |-> rgb] }
    ELSE LET pcd == create_colored_point_cloud_open3d(points, rgb)
         IN { IF d.kind = "raise" THEN d
              ELSE [kind |-> "return"] @@ convert_colored_open3d_point_cloud_to_numpy(d) :
              d \in voxel_down_sample(pcd, voxel_size) }

\* ------------------------------------------------------------------------
\* Specification of downsampling: a cloud is drawn, downsampled, and then
\* downsampled again in another order of its points
\* ------------------------------------------------------------------------
Clouds ==
    UNION { { [points |-> p, rgb |-> c] : p \in [1..n -> Positions], c \in [1..n -> Colors] } :
            n \in 0..MaxPts }

InitDown ==
    /\ pc = "start"
    /\ \E cl \in Clouds, vs \in VoxelSizes :
          args = [op |-> "downsample_point_cloud",
                  points |-> cl.points, rgb |-> cl.rgb, voxel_size |-> vs]
    /\ ret = [first |-> None, second |-> None, reordered |-> FALSE]
    /\ heap = <<>>
    /\ calls = <<>>

Downsample ==
    /\ pc = "start"
    /\ args.op = "downsample_point_cloud"
    /\ \E r \in downsample_point_cloud(args.points, args.rgb, args.voxel_size) :
          ret' = [ret EXCEPT !.first = r]
    /\ pc' = "called"
    /\ UNCHANGED <<args, heap, calls>>

DownsampleReordered ==
    /\ pc = "called"
    /\ args.op = "downsample_point_cloud"
    /\ \E perm \in Perms(Len(args.points)) :
          \E r \in downsample_point_cloud(Reorder(args.points, perm), Reorder(args.rgb, perm),
                                          args.voxel_size) :
             ret' = [ret EXCEPT !.second = r,
                                !.reordered = (Reorder(args.points, perm) # args.points
                                               \/ Reorder(args.rgb, perm) # args.rgb)]
    /\ pc' = "done"
    /\ UNCHANGED <<args, heap, calls>>

NextDown == Downsample \/ DownsampleReordered

SpecDown == InitDown /\ [][NextDown]_vars

\* ------------------------------------------------------------------------
\* cart_to_homogenous
\* ------------------------------------------------------------------------
\* An n-dimensional array: its shape and its elements in row-major order.
MaxDim == 2

Elems == { 1, 5 }

RECURSIVE Prod(_)
Prod(shape) == IF Len(shape) = 0 THEN 1 ELSE Head(shape) * Prod(Tail(shape))

ArraysOfShape(shape) == { [shape |-> shape, data |-> d] : d \in [1..Prod(shape) -> Elems] }

\* 0-, 1- and 2-dimensional arrays, and 3-dimensional ones of depth 1
Shapes ==
    { <<>> } \cup { <<n>> : n \in 0..MaxDim }
             \cup { <<d, n>> : d \in 0..MaxDim, n \in 0..MaxDim }
             \cup { <<d, n, 1>> : d \in 0..MaxDim, n \in 0..MaxDim }

Arrays == UNION { ArraysOfShape(sh) : sh \in Shapes }

\* np.ones((1, n))
ones(shape) == [shape |-> shape, data |-> [i \in 1..Prod(shape) |-> 1]]

\* mutant: the row is put before the input
vstack_reversed(a, b) ==
    [shape |-> <<a.shape[1] + b.shape[1], a.shape[2]>>, data |-> b.data \o a.data]

\* np.vstack of two 2-dimensional arrays with the same number of columns:
\* in row-major order the rows of b follow the rows of a
vstack(a, b) ==
    [shape |-> <<a.shape[1] + b.shape[1], a.shape[2]>>, data |-> a.data \o b.data]

\* mutant: only arrays of fewer than 2 dimensions are refused
IsNot2DimensionalLax(shape) == Len(shape) < 2

IsNot2Dimensional(shape) == Len(shape) # 2

cart_to_homogenous(non_homogenous_coordinates) ==
    IF IsNot2Dimensional(non_homogenous_coordinates.shape)
    THEN [kind |-> "raise", exc |-> "TypeError", line |-> 136]
    ELSE LET n == non_homogenous_coordinates.shape[2]
         IN [kind |-> "return",
             value |-> vstack(non_homogenous_coordinates, ones(<<1, n>>))]

\* a[:-1, :] of a 2-dimensional array: all rows but the last
remove_last_row(a) ==
    [shape |-> <<a.shape[1] - 1, a.shape[2]>>,
     data |-> SubSeq(a.data, 1, (a.shape[1] - 1) * a.shape[2])]

InitHomog ==
    /\ pc = "start"
    /\ \E a \in Arrays : args = [op |-> "cart_to_homogenous", non_homogenous_coordinates |-> a]
    /\ ret = [first |-> None, second |-> None]
    /\ heap = <<>>
    /\ calls = <<>>

CartToHomogenous ==
    /\ pc = "start"
    /\ args.op = "cart_to_homogenous"
    /\ ret' = [ret EXCEPT !.first = cart_to_homogenous(args.non_homogenous_coordinates)]
    /\ pc' = "called"
    /\ UNCHANGED <<args, heap, calls>>

\* the caller strips the appended row from the returned matrix
RemoveLastRow ==
    /\ pc = "called"
    /\ args.op = "cart_to_homogenous"
    /\ ret.first.kind = "return"
    /\ ret' = [ret EXCEPT !.second = [kind |-> "return",
                                      value |-> remove_last_row(ret.first.value)]]
    /\ pc' = "done"
    /\ UNCHANGED <<args, heap, calls>>

NextHomog == CartToHomogenous \/ RemoveLastRow

SpecHomog == InitHomog /\ [][NextHomog]_vars

\* ------------------------------------------------------------------------
\* piecewise_gaussian
\* ------------------------------------------------------------------------
MaxTheta == 6

Thetas == (-MaxTheta)..MaxTheta

Theta0s == { -1, 5 }

Sigmas == { 0, 1, 2, 10 }

\* math.exp, kept symbolic: the value whose natural logarithm is x
math_exp(x) == [exp_of |-> x]

\* mutant: the boundary theta = theta_0 falls to sigma_2
select_sigma_strict(theta, theta_0, sigma_1, sigma_2) ==
    IF theta < theta_0 THEN sigma_1 ELSE sigma_2

\* the standard deviation chosen by lines 112-116
select_sigma(theta, theta_0, sigma_1, sigma_2) ==
    IF theta <= theta_0 THEN sigma_1 ELSE sigma_2

\* line 118: math.exp(-((theta - theta_0) ** 2) / (2 * sigma ** 2))
gaussian(theta, theta_0, sigma) ==
    IF 2 * sigma * sigma = 0
    THEN [kind |-> "raise", exc |-> "ZeroDivisionError", line |-> 118]
    ELSE [kind |-> "return", sigma |-> sigma,
          value |-> math_exp(Frac(-((theta - theta_0) * (theta - theta_0)), 2 * sigma * sigma))]

\* the result carries the local variable sigma beside the returned value
piecewise_gaussian(theta, theta_0, sigma_1, sigma_2) ==
    gaussian(theta, theta_0, select_sigma(theta, theta_0, sigma_1, sigma_2))

InitGauss ==
    /\ pc = "start"
    /\ \E t0 \in Theta0s, s1 \in Sigmas, s2 \in Sigmas :
          args = [op |-> "piecewise_gaussian", theta_0 |-> t0, sigma_1 |-> s1, sigma_2 |-> s2]
    /\ ret = [first |-> None, second |-> None, theta |-> <<>>]
    /\ heap = <<>>
    /\ calls = <<>>

PiecewiseGaussian ==
    /\ pc = "start"
    /\ args.op = "piecewise_gaussian"
    /\ \E theta \in Thetas :
          ret' = [ret EXCEPT
                    !.first = piecewise_gaussian(theta, args.theta_0, args.sigma_1, args.sigma_2),
                    !.theta = <<theta>>]
    /\ pc' = "called"
    /\ UNCHANGED <<args, heap, calls>>

\* a second evaluation with the same parameters at another angle
PiecewiseGaussianAgain ==
    /\ pc = "called"
    /\ args.op = "piecewise_gaussian"
    /\ \E theta \in Thetas :
          ret' = [ret EXCEPT
                    !.second = piecewise_gaussian(theta, args.theta_0, args.sigma_1, args.sigma_2),
                    !.theta = Append(@, theta)]
    /\ pc' = "done"
    /\ UNCHANGED <<args, heap, calls>>

NextGauss == PiecewiseGaussian \/ PiecewiseGaussianAgain

SpecGauss == InitGauss /\ [][NextGauss]_vars

\* ------------------------------------------------------------------------
\* estimate_minimum_voxel_size
\* ------------------------------------------------------------------------
MaxEstPts == 3

Scales == { -1, 0, 2 }

\* ellipsoid_utils.center_point_cloud: the cloud minus its centroid
center_point_cloud(points) ==
    LET N == Len(points)
        total(a) == LET f[i \in 0..N] == IF i = 0 THEN 0 ELSE f[i - 1] + points[i][a] IN f[N]
    IN [i \in 1..N |-> [a \in Axes |-> Frac(N * points[i][a] - total(a), N)]]

\* ellipsoid_utils.get_right_singular_vectors: the singular values of the
\* centered cloud in decreasing order, kept symbolic
get_right_singular_vectors(centered_points) ==
    [V |-> [right_singular_vectors_of |-> centered_points],
     singular_values |-> [singular_values_of |-> centered_points]]

\* singular_values[-1] * scale
scaled_last(singular_values, scale) ==
    [last_of |-> singular_values, times |-> scale]

\* mutant: a single point is sent to the decomposition
TooFewPointsLax(N) == N < 1

TooFewPoints(N) == N < 2

\* the result carries the collaborators called beside the returned value
estimate_minimum_voxel_size(points, scale) ==
    LET N == Len(points)
    IN IF TooFewPoints(N)
       THEN [kind |-> "return", value |-> 0, trace |-> <<>>]
       ELSE LET centered_points == center_point_cloud(points)
                sv == get_right_singular_vectors(centered_points).singular_values
            IN [kind |-> "return", value |-> scaled_last(sv, scale),
                trace |-> <<"center_point_cloud", "get_right_singular_vectors">>]

InitEst ==
    /\ pc = "start"
    /\ \E n \in 0..MaxEstPts : \E p \in [1..n -> Positions], sc \in Scales :
          args = [op |-> "estimate_minimum_voxel_size", points |-> p, scale |-> sc]
    /\ ret = [first |-> None, second |-> None]
    /\ heap = <<>>
    /\ calls = <<>>

EstimateMinimumVoxelSize ==
    /\ pc = "start"
    /\ args.op = "estimate_minimum_voxel_size"
    /\ ret' = [ret EXCEPT !.first = estimate_minimum_voxel_size(args.points, args.scale)]
    /\ pc' = "done"
    /\ UNCHANGED <<args, heap, calls>>

NextEst == EstimateMinimumVoxelSize

SpecEst == InitEst /\ [][NextEst]_vars

\* ------------------------------------------------------------------------
\* calculate_triangulation_angle(s)_in_degrees
\* ------------------------------------------------------------------------
MaxBatch == 2

\* camera centres: camera.pose().translation()
Centers == { <<0, 0, 0>>, <<2, 0, 0>> }

\* (2,0,0) coincides with a centre, (1,0,0) lies between the centres
\* (anti-parallel rays), (4,0,0) beyond them (parallel rays)
AnglePoints == { <<0, 0, 5>>, <<1, 0, 0>>, <<2, 0, 0>>, <<4, 0, 0>>, <<1, 1, 1>> }

Dot(u, v) == u[1] * v[1] + u[2] * v[2] + u[3] * v[3]

Sign(x) == IF x > 0 THEN 1 ELSE IF x < 0 THEN -1 ELSE 0

NaN == [kind |-> "nan"]

\* A floating-point number in the range of a cosine: sign s, square q (a
\* reduced fraction) and a rounding error of e units in the last place, for
\* the value s * sqrt(q) + e * ulp.
One == [n |-> 1, d |-> 1]

Num(s, q, e) == [kind |-> "num", s |-> s, q |-> q, e |-> e]

\* the rounding errors one floating-point evaluation can leave
Ulps == { -1, 0, 1 }

Above1(x) == x.s = 1 /\ (x.q.n > x.q.d \/ (x.q.n = x.q.d /\ x.e > 0))

BelowMinus1(x) == x.s = -1 /\ (x.q.n > x.q.d \/ (x.q.n = x.q.d /\ x.e < 0))

\* mutant: the dot product reaches the inverse cosine unclipped
clip_omitted(x) == x

\* np.clip(x, -1, 1)
clip(x) ==
    IF x.kind = "nan" THEN x
    ELSE IF Above1(x) THEN Num(1, One, 0)
    ELSE IF BelowMinus1(x) THEN Num(-1, One, 0)
    ELSE x

\* np.rad2deg(np.arccos(x)), kept symbolic: the angle of [0, 180] whose cosine
\* is x, and nan outside the domain of the inverse cosine
arccos_deg(x) ==
    IF x.kind = "nan" \/ Above1(x) \/ BelowMinus1(x) THEN NaN
    ELSE [kind |-> "deg", cos |-> x]

\* a ray divided by its norm, kept as the ray and its squared norm; numpy
\* divides a zero ray by zero into nan
normalize(ray) ==
    IF Dot(ray, ray) = 0 THEN NaN ELSE [kind |-> "unit", v |-> ray, n2 |-> Dot(ray, ray)]

\* the dot products two unit vectors can give under rounding
unit_dot(u1, u2) ==
    IF u1.kind = "nan" \/ u2.kind = "nan" THEN { NaN }
    ELSE LET d == Dot(u1.v, u2.v)
         IN { Num(Sign(d), Frac(d * d, u1.n2 * u2.n2), e) : e \in Ulps }

\* lines 77-78 (and 42-43): the two rays of a point
rays(camera_center_1, camera_center_2, point_3d) ==
    [r1 |-> Vec3Sub(point_3d, camera_center_1), r2 |-> Vec3Sub(point_3d, camera_center_2)]

\* lines 81-87 for one row of the batch: the angles row i can come out as
row_angles(camera_center_1, camera_center_2, point_3d) ==
    LET r == rays(camera_center_1, camera_center_2, point_3d)
        dot_products == unit_dot(normalize(r.r1), normalize(r.r2))
    IN { arccos_deg(clip(x)) : x \in dot_products }

\* the set of results the batched call can produce
calculate_triangulation_angles_in_degrees(camera_center_1, camera_center_2, points_3d) ==
    LET N == Len(points_3d)
    IN { a \in [1..N -> UNION { row_angles(camera_center_1, camera_center_2, points_3d[i]) :
                                i \in 1..N }] :
         \A i \in 1..N : a[i] \in row_angles(camera_center_1, camera_center_2, points_3d[i]) }

\* gtsam.Unit3(ray): the direction of the ray; for a zero ray the library does
\* not define the result (nan components or the zero vector)
Unit3(ray) ==
    IF Dot(ray, ray) = 0 THEN { NaN, [kind |-> "unit", v |-> ray, n2 |-> 1] }
    ELSE { [kind |-> "unit", v |-> ray, n2 |-> Dot(ray, ray)] }

\* geometry_comparisons.compute_relative_unit_translation_angle: the angle
\* between two unit vectors, arccos(clip(u1 . u2, -1, 1)) in degrees
compute_relative_unit_translation_angle(u1, u2) ==
    { arccos_deg(clip(x)) : x \in unit_dot(u1, u2) }

\* the set of results the single-point call can produce
calculate_triangulation_angle_in_degrees(camera_center_1, camera_center_2, point_3d) ==
    LET ray_1 == Vec3Sub(point_3d, camera_center_1)
        ray_2 == Vec3Sub(point_3d, camera_center_2)
    IN UNION { compute_relative_unit_translation_angle(u1, u2) :
               u1 \in Unit3(ray_1), u2 \in Unit3(ray_2) }

InitAngle ==
    /\ pc = "start"
    /\ \E c1 \in Centers, c2 \in Centers, n \in 0..MaxBatch : \E p \in [1..n -> AnglePoints] :
          args = [op |-> "calculate_triangulation_angles_in_degrees",
                  camera_center_1 |-> c1, camera_center_2 |-> c2, points_3d |-> p]
    /\ ret = [first |-> None, second |-> None, i |-> 0]
    /\ heap = <<>>
    /\ calls = <<>>

AnglesBatched ==
    /\ pc = "start"
    /\ args.op = "calculate_triangulation_angles_in_degrees"
    /\ \E a \in calculate_triangulation_angles_in_degrees(
                   args.camera_center_1, args.camera_center_2, args.points_3d) :
          ret' = [ret EXCEPT !.first = [kind |-> "return", value |-> a]]
    /\ pc' = "called"
    /\ UNCHANGED <<args, heap, calls>>

\* the single-point form on point i of the batch, with the same cameras
AngleSingle ==
    /\ pc = "called"
    /\ args.op = "calculate_triangulation_angles_in_degrees"
    /\ \E i \in 1..Len(args.points_3d) :
          \E a \in calculate_triangulation_angle_in_degrees(
                      args.camera_center_1, args.camera_center_2, args.points_3d[i]) :
             ret' = [ret EXCEPT !.second = [kind |-> "return", value |-> a], !.i = i]
    /\ pc' = "done"
    /\ UNCHANGED <<args, heap, calls>>

NextAngle == AnglesBatched \/ AngleSingle

SpecAngle == InitAngle /\ [][NextAngle]_vars

\* ------------------------------------------------------------------------
\* Specification of the core: one of the operations is called on arguments
\* of its own
\* ------------------------------------------------------------------------
\* the lines of mvs_utils.py that hold a raise statement
RaiseStatements == { 136 }

InitCore == InitAngle \/ InitGauss \/ InitHomog \/ InitEst \/ InitDown

NextCore == NextAngle \/ NextGauss \/ NextHomog \/ NextEst \/ NextDown

SpecCore == InitCore /\ [][NextCore]_vars

\* ------------------------------------------------------------------------
\* The operations on arrays held by reference: heap maps an array's identity
\* to the array, calls is the log of the calls made so far
\* ------------------------------------------------------------------------
MaxCalls == 2

\* an (N,3) array of integers from its rows, and the rows of an (N,3) array
FromRows(rows, role) ==
    [role |-> role, shape |-> <<Len(rows), 3>>,
     data |-> [k \in 1..(3 * Len(rows)) |-> rows[((k - 1) \div 3) + 1][((k - 1) % 3) + 1]]]

Rows(a) ==
    [i \in 1..a.shape[1] |-> [c \in Axes |-> a.data[3 * (i - 1) + c]]]

FrameCenter1 == <<0, 0, 0>>

FrameCenter2 == <<2, 0, 0>>

FrameClouds ==
    { [points |-> <<<<0, 0, 1>>, <<1, 0, 1>>>>, rgb |-> <<<<0, 0, 0>>, <<255, 128, 1>>>>],
      [points |-> <<<<4, 0, 0>>, <<4, 0, 0>>>>, rgb |-> <<<<255, 128, 1>>, <<0, 0, 0>>>>] }

FramePoints == { <<0, 0, 5>>, <<4, 0, 0>> }

FrameVoxelSizes == { 0, 2 }

FrameThetas == { 5, 6 }

Alloc(h, a) == [heap |-> Append(h, a), id |-> Len(h) + 1]

\* lines 77-78 (42-43): points_3d - camera_center.reshape(1, 3) is a new array
rays_array(h, id, camera_center) ==
    Alloc(h, [role |-> "rays", shape |-> h[id].shape,
              data |-> [k \in 1..Len(h[id].data) |->
                           h[id].data[k] - camera_center[((k - 1) % 3) + 1]]])

\* lines 81-82: rays /= norm, in place in the array of rays; the normalised
\* array is kept as its rows divided by their norms
normalize_in_place(h, id) ==
    [h EXCEPT ![id] = [role |-> "unit rays", shape |-> h[id].shape,
                       data |-> [i \in 1..h[id].shape[1] |-> normalize(Rows(h[id])[i])]]]

\* lines 72-88 on the heap: the outcomes [heap, outs, result] of the batched
\* call on the array id
frame_angles(h, id, camera_center_1, camera_center_2) ==
    LET a1 == rays_array(h, id, camera_center_1)
        a2 == rays_array(a1.heap, id, camera_center_2)
        h2 == normalize_in_place(normalize_in_place(a2.heap, a1.id), a2.id)
        N == h[id].shape[1]
        rows(i) == { arccos_deg(clip(x)) : x \in unit_dot(h2[a1.id].data[i], h2[a2.id].data[i]) }
        kept == SubSeq(h2, 1, Len(h))
    IN { [heap |-> Append(kept, [role |-> "angles_deg", shape |-> <<N>>, data |-> a]),
          outs |-> <<Len(h) + 1>>, result |-> a] :
         a \in { f \in [1..N -> UNION { rows(i) : i \in 1..N }] : \A i \in 1..N : f[i] \in rows(i) } }

\* lines 38-45 on the heap: point_3d - camera_center is a new array, the
\* result a float
frame_angle(h, id, camera_center_1, camera_center_2) ==
    { [heap |-> h, outs |-> <<>>, result |-> a] :
      a \in calculate_triangulation_angle_in_degrees(camera_center_1, camera_center_2, h[id].data) }

\* mutant: the row of ones is appended to the input array itself
frame_cart_to_homogenous_in_place(h, id) ==
    LET r == cart_to_homogenous([shape |-> h[id].shape, data |-> h[id].data])
    IN IF r.kind = "raise" THEN { [heap |-> h, outs |-> <<>>, result |-> r] }
       ELSE { [heap |-> [h EXCEPT ![id] = [role |-> h[id].role] @@ r.value],
               outs |-> <<id>>, result |-> r] }

\* lines 135-140 on the heap: np.vstack builds a new array
frame_cart_to_homogenous(h, id) ==
    LET r == cart_to_homogenous([shape |-> h[id].shape, data |-> h[id].data])
    IN IF r.kind = "raise" THEN { [heap |-> h, outs |-> <<>>, result |-> r] }
       ELSE { [heap |-> Append(h, [role |-> "homogenous"] @@ r.value),
               outs |-> <<Len(h) + 1>>, result |-> r] }

\* lines 157-170 on the heap: the centered cloud is a new array, the result
\* a float
frame_estimate_minimum_voxel_size(h, id, scale) ==
    { [heap |-> h, outs |-> <<>>, result |-> estimate_minimum_voxel_size(Rows(h[id]), scale)] }

\* lines 193-201 on the heap: line 195 returns the argument arrays
\* themselves, line 200 arrays built from the downsampled cloud
frame_downsample_point_cloud(h, points, rgb, voxel_size) ==
    IF IsInvalidVoxelSize(voxel_size)
    THEN { [heap |-> h, outs |-> <<points, rgb>>,
            result |-> [kind |-> "return", points |-> Rows(h[points]), rgb |-> Rows(h[rgb])]] }
    ELSE { [heap |-> h \o << [role |-> "points_downsampled", shape |-> <<Len(d.points), 3>>,
                              data |-> d.points],
                             [role |-> "rgb_downsampled", shape |-> <<Len(d.rgb), 3>>,
                              data |-> d.rgb] >>,
            outs |-> <<Len(h) + 1, Len(h) + 2>>, result |-> d] :
           d \in downsample_point_cloud(Rows(h[points]), Rows(h[rgb]), voxel_size) }

Ids(role) == { id \in 1..Len(heap) : heap[id].role = role }

\* the log entry of a call and its effect on the heap
Record(op, ins, scalars, o) ==
    /\ heap' = o.heap
    /\ calls' = Append(calls, [op |-> op, ins |-> ins, scalars |-> scalars,
                                before |-> [k \in 1..Len(ins) |-> heap[ins[k]]],
                                len |-> Len(heap), outs |-> o.outs, result |-> o.result])
    /\ UNCHANGED <<pc, args, ret>>

InitFrame ==
    /\ pc = "frame"
    /\ args = [op |-> "any"]
    /\ ret = [first |-> None, second |-> None]
    /\ \E cl \in FrameClouds, p \in FramePoints :
          heap = << FromRows(cl.points, "points"), FromRows(cl.rgb, "rgb"),
                    [role |-> "point_3d", shape |-> <<3>>, data |-> p] >>
    /\ calls = <<>>

FrameAngles ==
    /\ pc = "frame" /\ Len(calls) < MaxCalls
    /\ \E id \in Ids("points") :
          \E o \in frame_angles(heap, id, FrameCenter1, FrameCenter2) :
             Record("calculate_triangulation_angles_in_degrees", <<id>>, <<>>, o)

FrameAngle ==
    /\ pc = "frame" /\ Len(calls) < MaxCalls
    /\ \E id \in Ids("point_3d") :
          \E o \in frame_angle(heap, id, FrameCenter1, FrameCenter2) :
             Record("calculate_triangulation_angle_in_degrees", <<id>>, <<>>, o)

FramePiecewiseGaussian ==
    /\ pc = "frame" /\ Len(calls) < MaxCalls
    /\ \E theta \in FrameThetas :
          Record("piecewise_gaussian", <<>>, <<theta>>,
                 [heap |-> heap, outs |-> <<>>, result |-> piecewise_gaussian(theta, 5, 1, 10)])

FrameCartToHomogenous ==
    /\ pc = "frame" /\ Len(calls) < MaxCalls
    /\ \E id \in Ids("points") \cup Ids("point_3d") \cup Ids("homogenous") :
          \E o \in frame_cart_to_homogenous(heap, id) :
             Record("cart_to_homogenous", <<id>>, <<>>, o)

FrameEstimate ==
    /\ pc = "frame" /\ Len(calls) < MaxCalls
    /\ \E id \in Ids("points") :
          \E o \in frame_estimate_minimum_voxel_size(heap, id, 2) :
             Record("estimate_minimum_voxel_size", <<id>>, <<2>>, o)

FrameDownsample ==
    /\ pc = "frame" /\ Len(calls) < MaxCalls
    /\ \E points \in Ids("points"), rgb \in Ids("rgb"), vs \in FrameVoxelSizes :
          \E o \in frame_downsample_point_cloud(heap, points, rgb, vs) :
             Record("downsample_point_cloud", <<points, rgb>>, <<vs>>, o)

NextFrame ==
    \/ FrameAngles
    \/ FrameAngle
    \/ FramePiecewiseGaussian
    \/ FrameCartToHomogenous
    \/ FrameEstimate
    \/ FrameDownsample

SpecFrame == InitFrame /\ [][NextFrame]_vars

\* ------------------------------------------------------------------------
\* Claims about downsample_point_cloud (SpecDown)
\* ------------------------------------------------------------------------
RECURSIVE SumOver(_, _)
SumOver(S, v) ==
    IF S = {} THEN 0
    ELSE LET x == CHOOSE y \in S : TRUE IN v[x] + SumOver(S \ {x}, v)

NPts == Len(args.points)

\* the cell of point i in the grid anchored half a voxel below the cloud's
\* per-axis minimum
MinCoord(a) == MinOver({ args.points[i][a] : i \in 1..NPts })

AnchoredCell(i) ==
    [a \in Axes |-> (2 * (args.points[i][a] - MinCoord(a)) + args.voxel_size)
                       \div (2 * args.voxel_size)]

\* the cell of point i in the grid anchored at the origin
OriginCell(i) == [a \in Axes |-> args.points[i][a] \div args.voxel_size]

Members(cell(_), k) == { i \in 1..NPts : cell(i) = k }

MeanOf(S, arr) ==
    [a \in Axes |-> Frac(SumOver(S, [i \in S |-> arr[i][a]]), Cardinality(S))]

\* the output expected of a grid: one (mean position, mean colour) per
\* occupied cell
Expected(cell(_)) ==
    { <<MeanOf(Members(cell, k), args.points), MeanOf(Members(cell, k), args.rgb)>> :
      k \in { cell(i) : i \in 1..NPts } }

Emitted(r) == { <<r.points[j], r.rgb[j]>> : j \in 1..Len(r.points) }

OnePerCell(r, cell(_)) ==
    /\ r.kind = "return"
    /\ Len(r.points) = Cardinality({ cell(i) : i \in 1..NPts })
    /\ Len(r.rgb) = Len(r.points)
    /\ Emitted(r) = Expected(cell)

ThmC3 ==
    (pc # "start" /\ args.voxel_size <= 0) =>
       ret.first = [kind |-> "return", points |-> args.points, rgb |-> args.rgb]

\* a cloud with a repeated position, returned as it is at voxel_size = 0
WitC3 ==
    /\ pc # "start"
    /\ args.voxel_size = 0
    /\ NPts >= 2
    /\ args.points[1] = args.points[2]
    /\ ret.first.kind = "return"
    /\ Len(ret.first.points) = NPts

\* C4: with voxel_size > 0, the cloud and any reordering of it are
\* downsampled to the same set of (position, colour) points.
ThmC4 ==
    (pc = "done" /\ args.voxel_size > 0) =>
       /\ ret.first.kind = "return"
       /\ ret.second.kind = "return"
       /\ Emitted(ret.first) = Emitted(ret.second)

\* a cloud that was really reordered and in which points were averaged
WitC4 ==
    /\ pc = "done"
    /\ args.voxel_size > 0
    /\ ret.reordered
    /\ ret.second.kind = "return"
    /\ Len(ret.second.points) < NPts
    /\ Len(ret.second.points) >= 2

\* ------------------------------------------------------------------------
\* Claims about cart_to_homogenous (SpecHomog)
\* ------------------------------------------------------------------------
Coords == args.non_homogenous_coordinates

\* element (r, c) of a 2-dimensional array
At(a, r, c) == a.data[(r - 1) * a.shape[2] + c]

\* C6: for a d x N input the result is a (d+1) x N matrix whose first d rows
\* are the input and whose last row is N ones, and the matrix without its
\* last row is the input.
ThmC6 ==
    (args.op = "cart_to_homogenous" /\ pc # "start" /\ Len(Coords.shape) = 2) =>
       LET d == Coords.shape[1]
           n == Coords.shape[2]
       IN /\ ret.first.kind = "return"
          /\ ret.first.value.shape = <<d + 1, n>>
          /\ Len(ret.first.value.data) = (d + 1) * n
          /\ \A r \in 1..d, c \in 1..n : At(ret.first.value, r, c) = At(Coords, r, c)
          /\ \A c \in 1..n : At(ret.first.value, d + 1, c) = 1
          /\ pc = "done" => ret.second.value = Coords

\* a matrix of 2 rows and 2 columns, not all ones, lifted and stripped again
WitC6 ==
    /\ args.op = "cart_to_homogenous"
    /\ pc = "done"
    /\ Coords.shape = <<2, 2>>
    /\ \E i \in 1..4 : Coords.data[i] # 1
    /\ ret.first.value.shape = <<3, 2>>
    /\ ret.second.value = Coords

\* ------------------------------------------------------------------------
\* Claims about piecewise_gaussian (SpecGauss)
\* ------------------------------------------------------------------------
\* exp is strictly increasing, exp(0) = 1 and exp(x) > 0: comparisons of
\* values of exp are comparisons of their arguments
FracLess(x, y) == x.n * y.d < y.n * x.d

ExpLess(v, w) == FracLess(v.exp_of, w.exp_of)

ExpIsOne(v) == v.exp_of.n = 0

ExpInUnitInterval(v) == v.exp_of.n <= 0

PositiveSigmas == args.sigma_1 > 0 /\ args.sigma_2 > 0

Dist(theta) == Abs(theta - args.theta_0)

GaussOf(theta, sigma) ==
    [exp_of |-> Frac(-((theta - args.theta_0) * (theta - args.theta_0)), 2 * sigma * sigma)]

PerCallC8(r, theta) ==
    /\ r.kind = "return"
    /\ theta <= args.theta_0 => (r.sigma = args.sigma_1 /\ r.value = GaussOf(theta, args.sigma_1))
    /\ theta > args.theta_0 => (r.sigma = args.sigma_2 /\ r.value = GaussOf(theta, args.sigma_2))
    /\ theta = args.theta_0 => ExpIsOne(r.value)
    /\ ExpInUnitInterval(r.value)

\* C8: with positive sigma_1 and sigma_2, sigma_1 is used for theta <= theta_0
\* (theta = theta_0 included) and sigma_2 for theta > theta_0; the result is 1
\* at theta = theta_0, lies in (0, 1], and of two angles on the same side of
\* theta_0 the one farther from theta_0 has the strictly smaller result.
ThmC8 ==
    (args.op = "piecewise_gaussian" /\ PositiveSigmas) =>
       /\ pc # "start" => PerCallC8(ret.first, ret.theta[1])
       /\ pc = "done" =>
             /\ PerCallC8(ret.second, ret.theta[2])
             /\ \/ (ret.theta[1] <= args.theta_0 /\ ret.theta[2] <= args.theta_0)
                \/ (ret.theta[1] >= args.theta_0 /\ ret.theta[2] >= args.theta_0)
                => (Dist(ret.theta[1]) < Dist(ret.theta[2])
                      => ExpLess(ret.second.value, ret.first.value))

\* the boundary angle and a farther angle below it, with different deviations
WitC8 ==
    /\ args.op = "piecewise_gaussian"
    /\ pc = "done"
    /\ args.sigma_1 > 0
    /\ args.sigma_2 > args.sigma_1
    /\ ret.theta[1] = args.theta_0
    /\ ret.theta[2] < args.theta_0
    /\ ret.first.sigma = args.sigma_1
    /\ ExpIsOne(ret.first.value)
    /\ ExpLess(ret.second.value, ret.first.value)

\* ------------------------------------------------------------------------
\* Claims about estimate_minimum_voxel_size (SpecEst)
\* ------------------------------------------------------------------------
\* C5: for 0 or 1 points the call returns exactly 0 without centering the
\* cloud or computing singular values, for every scale; the principal-axis
\* computation is reached only with 2 or more points.
ThmC5 ==
    (args.op = "estimate_minimum_voxel_size" /\ pc = "done") =>
       /\ Len(args.points) < 2 => (ret.first.kind = "return" /\ ret.first.trace = <<>>
                                    /\ ret.first.value = 0)
       /\ ret.first.trace # <<>> => Len(args.points) >= 2

\* a single point with a non-zero scale
WitC5 ==
    /\ args.op = "estimate_minimum_voxel_size"
    /\ pc = "done"
    /\ Len(args.points) = 1
    /\ args.scale # 0
    /\ ret.first.value = 0

\* ------------------------------------------------------------------------
\* Claims about the triangulation angles (SpecAngle)
\* ------------------------------------------------------------------------
NoPointAtACamera ==
    \A i \in 1..Len(args.points_3d) :
       /\ args.points_3d[i] # args.camera_center_1
       /\ args.points_3d[i] # args.camera_center_2

\* an angle of [0, 180] degrees: the inverse cosine of a number of [-1, 1]
InDegreeRange(a) ==
    /\ a.kind = "deg"
    /\ a.cos.kind = "num"
    /\ ~Above1(a.cos)
    /\ ~BelowMinus1(a.cos)

\* the cosine of the angle at point x between the rays to c1 and c2
CosAt(c1, c2, x) ==
    LET r1 == Vec3Sub(x, c1)
        r2 == Vec3Sub(x, c2)
        d == Dot(r1, r2)
    IN [s |-> Sign(d), q |-> Frac(d * d, Dot(r1, r1) * Dot(r2, r2))]

\* angle a is the angle of cosine c up to the rounding of the last place
IsAngleOf(a, c) == a.kind = "deg" /\ a.cos.s = c.s /\ a.cos.q = c.q

\* C9: for a batch without a point at a camera centre, element i of the
\* batched result and the single-point result for point i are the same angle
\* (up to floating-point rounding), the angle between the two rays at point
\* i, and both lie in [0, 180] degrees.
ThmC9 ==
    (args.op = "calculate_triangulation_angles_in_degrees" /\ NoPointAtACamera) =>
       /\ pc # "start" =>
             /\ Len(ret.first.value) = Len(args.points_3d)
             /\ \A i \in 1..Len(args.points_3d) :
                   /\ InDegreeRange(ret.first.value[i])
                   /\ IsAngleOf(ret.first.value[i],
                                CosAt(args.camera_center_1, args.camera_center_2,
                                      args.points_3d[i]))
       /\ pc = "done" =>
             /\ InDegreeRange(ret.second.value)
             /\ ret.second.value.cos.s = ret.first.value[ret.i].cos.s
             /\ ret.second.value.cos.q = ret.first.value[ret.i].cos.q

\* a batch of two points, one with parallel rays whose dot product was
\* rounded above 1 and clipped in the batched form, compared with the
\* single-point form
WitC9 ==
    /\ args.op = "calculate_triangulation_angles_in_degrees"
    /\ NoPointAtACamera
    /\ pc = "done"
    /\ Len(args.points_3d) = 2
    /\ args.camera_center_1 # args.camera_center_2
    /\ ret.first.value[ret.i].cos = Num(1, One, 0)
    /\ ret.second.value.cos = Num(1, One, -1)
    /\ \E j \in 1..2 : ret.first.value[j].cos.q.n < ret.first.value[j].cos.q.d

\* ------------------------------------------------------------------------
\* Claims about the validation of arguments (SpecCore)
\* ------------------------------------------------------------------------
RaisedByCheck(r) == r.kind = "raise" /\ r.line \in RaiseStatements

\* C7: cart_to_homogenous raises TypeError and returns no matrix for every
\* input that is not 2-dimensional, raises nothing for a 2-dimensional input,
\* and no other call of a core operation fails an argument check.
ThmC7 ==
    /\ (args.op = "cart_to_homogenous" /\ pc # "start") =>
          IF Len(Coords.shape) # 2
          THEN ret.first = [kind |-> "raise", exc |-> "TypeError", line |-> 136]
          ELSE ret.first.kind = "return"
    /\ (RaisedByCheck(ret.first) \/ RaisedByCheck(ret.second)) =>
          (args.op = "cart_to_homogenous" /\ Len(Coords.shape) # 2)

\* a 3-dimensional array with elements was refused
WitC7 ==
    /\ args.op = "cart_to_homogenous"
    /\ pc = "called"
    /\ Len(Coords.shape) = 3
    /\ Len(Coords.data) >= 2
    /\ RaisedByCheck(ret.first)

\* ------------------------------------------------------------------------
\* Claims about the effects of the calls (SpecFrame)
\* ------------------------------------------------------------------------
Calls == 1..Len(calls)

\* every array passed to a call still holds what it held at the call
InputsUnchanged ==
    \A c \in Calls : \A k \in 1..Len(calls[c].ins) : heap[calls[c].ins[k]] = calls[c].before[k]

\* the arrays a call returned did not exist before it
OutputsNew(c) == \A k \in 1..Len(calls[c].outs) : calls[c].outs[k] > calls[c].len

IsNoOpDownsample(c) ==
    calls[c].op = "downsample_point_cloud" /\ calls[c].scalars[1] <= 0

\* equality of two results of one operation, up to the rounding of the last
\* place of an angle and the order of the points of a downsampled cloud
SameAngle(a, b) ==
    a.kind = b.kind /\ (a.kind = "deg" => (a.cos.s = b.cos.s /\ a.cos.q = b.cos.q))

SameResult(op, x, y) ==
    IF op = "calculate_triangulation_angles_in_degrees"
    THEN Len(x) = Len(y) /\ \A i \in 1..Len(x) : SameAngle(x[i], y[i])
    ELSE IF op = "calculate_triangulation_angle_in_degrees" THEN SameAngle(x, y)
    ELSE IF op = "downsample_point_cloud"
    THEN x.kind = y.kind /\ Emitted(x) = Emitted(y)
    ELSE x = y

\* two calls of one operation on the same arguments give the same result
Stateless ==
    \A c, d \in Calls :
       (calls[c].op = calls[d].op /\ calls[c].ins = calls[d].ins
          /\ calls[c].scalars = calls[d].scalars)
       => SameResult(calls[c].op, calls[c].result, calls[d].result)

\* C10 (as stated): every call leaves its input arrays unchanged, returns
\* newly allocated arrays and none of its inputs, and gives the same result
\* whatever calls were made before it.
CexC10 ==
    /\ InputsUnchanged
    /\ \A c \in Calls : OutputsNew(c)
    /\ Stateless

\* C10 (amended): every call leaves its input arrays unchanged and gives the
\* same result whatever calls were made before it; every call returns newly
\* allocated arrays, except downsample_point_cloud with voxel_size <= 0, which
\* returns its two argument arrays themselves.
ThmC10 ==
    /\ InputsUnchanged
    /\ \A c \in Calls :
          IF IsNoOpDownsample(c) THEN calls[c].outs = calls[c].ins ELSE OutputsNew(c)
    /\ Stateless

\* a no-op downsampling that returned its arguments, followed by a
\* homogenisation of the same points array into a new array
WitC10 ==
    /\ Len(calls) = 2
    /\ IsNoOpDownsample(1)
    /\ calls[1].outs = calls[1].ins
    /\ calls[2].op = "cart_to_homogenous"
    /\ calls[2].ins = <<calls[1].outs[1]>>
    /\ calls[2].result.kind = "return"
    /\ OutputsNew(2)
    /\ heap[calls[2].ins[1]] = calls[2].before[1]

====
